---- MODULE Spec2Model ----
(***************************************************************************)
(* A model of the maffb tools: the README section upserter                 *)
(* (tools/readme_updater_tool.py), the emailer's send loop                 *)
(* (tools/emailer_tool.py), the feed locator, the feed fetcher and the     *)
(* post aggregator (tools/rss_feed_extractor_tool.py) and the summary mode *)
(* of the Markdown formatter (tools/markdown_formatter_tool.py).           *)
(*                                                                         *)
(* Text is a sequence of tokens.  A token is one character ("#", SP, NL,   *)
(* BS, "-", "*", "_", ".", "1", "x", "y") or an opaque chunk of characters *)
(* that no operation of the code looks into except as stated below:        *)
(*   "D"    the text  📅 Daily Blog Summary   (lower-cased it holds "blog")*)
(*   "F"    the text  Features                                             *)
(*   "P"    the text  📰                                                   *)
(*   "SRC"  the text  🔗 **Source:**                                       *)
(*   "http" "blog" "Blog"   those words                                    *)
(*   "T1"   a title, "d1" "d2" dates (YYYY-MM-DD), "old" "intro" "feat"    *)
(*   plain README prose, "TPL1" "TPL2" "TPL3" the fixed prose of the       *)
(*   default README template.                                              *)
(***************************************************************************)
EXTENDS Integers, Sequences, FiniteSets, TLC

VARIABLES
  readme,      \* README.md on disk: NoFile or its text
  prev,        \* README.md as it was before the last upsert call
  lastArgs,    \* arguments of the last upsert call
  prevArgs,    \* arguments of the upsert call before that
  result,      \* what the last upsert call returned: "none", "ok", "error"
  errStage,    \* where the last upsert call failed: "none", "format", "read", "replace", "write"
  prevResult,  \* what the upsert call before the last returned
  calls,       \* number of upsert calls made
  sg,            \* EmailerTool.sg: TRUE when the SendGrid client exists
  eu_residency,  \* EmailerTool.eu_residency, the region flag
  SENDGRID_EU_RESIDENCY,  \* the environment variable, read as a truth value
  epc,           \* where EmailerTool._run is: "idle", "sending", "done"
  cfg,           \* the files _run found: [list, template]
  emailer_list,  \* the recipient list _run loaded
  idx,           \* number of recipients the send loop has finished with
  sends,         \* the calls of sg.send so far, in order
  success_count, \* _run's success_count
  emailResult,   \* what _run returned: "none" until it returns
  blog_url,      \* the argument of the last _find_rss_feed call
  probe,         \* what session.get(blog_url) did in that call
  rss_patterns,  \* the list that call returned
  locCalls,      \* number of _find_rss_feed calls made
  fetch_resp,    \* what session.get(rss_url) did in the _extract_posts_from_rss call
  fetch_args,    \* the topic, max_posts and feedparser of that call
  fetch_posts,   \* the list that call returned
  fetch_part,    \* today_posts and other_posts when that call returned
  fetch_raised,  \* TRUE when an exception left that call
  fetch_done,    \* TRUE once that call has returned
  agg_pc,          \* where RssFeedExtractorTool._run is: "idle", "fetching", "done"
  agg_args,        \* its topic and max_posts
  blog_sources,    \* the blogs it loaded
  agg_blog,        \* the blog the outer loop is at (1-based)
  rss_urls,        \* the candidates of that blog
  agg_cand,        \* the candidate the inner loop is at (1-based)
  extracted_posts, \* the posts gathered so far
  agg_log,         \* the calls of _extract_posts_from_rss so far, in order
  agg_result,      \* what _run returned; kind "none" until it returns
  md_content,    \* the content of the MarkdownFormatterTool._run call
  md_title,      \* its title
  md_date,       \* its date
  md_out,        \* what it returned
  md_done        \* TRUE once it has returned

readmeVars == <<readme, prev, lastArgs, prevArgs, result, errStage, prevResult, calls>>

emailerVars == <<sg, eu_residency, SENDGRID_EU_RESIDENCY, epc, cfg, emailer_list, idx, sends, success_count, emailResult>>

locatorVars == <<blog_url, probe, rss_patterns, locCalls>>

fetcherVars == <<fetch_resp, fetch_args, fetch_posts, fetch_part, fetch_raised, fetch_done>>

aggregatorVars == <<agg_pc, agg_args, blog_sources, agg_blog, rss_urls, agg_cand, extracted_posts, agg_log, agg_result>>

formatterVars == <<md_content, md_title, md_date, md_out, md_done>>

vars == <<readmeVars, emailerVars, locatorVars, fetcherVars, aggregatorVars, formatterVars>>

(* what each tool leaves alone *)
notReadmeVars == <<emailerVars, locatorVars, fetcherVars, aggregatorVars, formatterVars>>

notEmailerVars == <<readmeVars, locatorVars, fetcherVars, aggregatorVars, formatterVars>>

notLocatorVars == <<readmeVars, emailerVars, fetcherVars, aggregatorVars, formatterVars>>

notFetcherVars == <<readmeVars, emailerVars, locatorVars, aggregatorVars, formatterVars>>

notAggregatorVars == <<readmeVars, emailerVars, locatorVars, fetcherVars, formatterVars>>

notFormatterVars == <<readmeVars, emailerVars, locatorVars, fetcherVars, aggregatorVars>>

----------------------------------------------------------------------------
(* Tokens *)

SP == "SP"
NL == "NL"
BS == "BS"

(* values that are no text: an absent file, a summary_content that is no    *)
(* string, a raised exception                                               *)
NoFile == <<"NOFILE">>
NoContent == <<"NONE">>
Error == <<"ERROR">>

(* ASCII letters among the tokens: the first character of the token *)
IsAsciiLetter(c) == c \in {"x", "y", "F", "T1", "http", "blog", "Blog", "old", "intro", "feat", "TPL1", "TPL2", "TPL3"}

----------------------------------------------------------------------------
(* Python string primitives on token sequences *)

Slice(s, i, j) == IF j < i THEN <<>> ELSE SubSeq(s, i, j)

From(s, i) == Slice(s, i, Len(s))

(* s[i:].startswith(p), i counted from 1 *)
StartsAt(s, p, i) ==
  /\ i >= 1
  /\ i + Len(p) - 1 <= Len(s)
  /\ \A k \in 1..Len(p) : s[i + k - 1] = p[k]

StartsWith(s, p) == StartsAt(s, p, 1)

(* s.find(p), counted from 1; 0 when p does not occur (Python's -1) *)
Find(s, p) ==
  LET hits == {i \in 1..(Len(s) + 1) : StartsAt(s, p, i)}
  IN  IF hits = {} THEN 0 ELSE CHOOSE i \in hits : \A k \in hits : i <= k

(* p in s *)
Contains(s, p) == Find(s, p) # 0

RECURSIVE LStripBy(_, _)
LStripBy(s, cs) ==
  IF s # <<>> /\ Head(s) \in cs THEN LStripBy(Tail(s), cs) ELSE s

RECURSIVE RStripBy(_, _)
RStripBy(s, cs) ==
  IF s # <<>> /\ s[Len(s)] \in cs THEN RStripBy(Slice(s, 1, Len(s) - 1), cs) ELSE s

StripBy(s, cs) == RStripBy(LStripBy(s, cs), cs)

(* s.strip() *)
Strip(s) == StripBy(s, {SP, NL})

(* s.strip('#') and s.lstrip('#') *)
StripHash(s) == StripBy(s, {"#"})

LStripHash(s) == LStripBy(s, {"#"})

(* str.lower() on one token *)
Lower(c) ==
  CASE c = "Blog" -> "blog"
    [] c = "D" -> "dlower"
    [] c = "F" -> "flower"
    [] OTHER -> c

LowerText(s) == [i \in 1..Len(s) |-> Lower(s[i])]

(* content.split('\n\n'): non-overlapping separators, left to right *)
RECURSIVE SplitBlank(_)
SplitBlank(s) ==
  LET i == Find(s, <<NL, NL>>)
  IN  IF i = 0 THEN <<s>>
      ELSE <<Slice(s, 1, i - 1)>> \o SplitBlank(From(s, i + 2))

----------------------------------------------------------------------------
(* ReadmeUpdaterTool._format_daily_summary *)

HEADING == <<"#", "#", SP, "D">>

FEATURES == <<"#", "#", SP, "F">>

(* one section of the content, as the loop body appends it to formatted *)
FormatSection(section) ==
  LET stripped == Strip(section)
      level    == Len(section) - Len(LStripHash(section))
      text     == Strip(StripHash(section))
  IN  IF stripped = <<>> THEN <<>>
      ELSE IF StartsWith(stripped, <<"#">>) THEN
             IF level = 1 THEN <<"#", "#", "#", "#", SP>> \o text \o <<NL, NL>>
             ELSE IF level = 2 THEN <<"#", "#", "#", "#", "#", SP>> \o text \o <<NL, NL>>
             ELSE <<"#", "#", "#", "#", "#", "#", SP>> \o text \o <<NL, NL>>
      ELSE IF \/ StartsWith(stripped, <<"-", SP>>)
              \/ StartsWith(stripped, <<"*", SP>>)
              \/ StartsWith(stripped, <<"1", ".", SP>>) THEN
             stripped \o <<NL>>
      ELSE IF /\ Contains(section, <<"http">>)
              /\ \/ Contains(LowerText(section), <<"blog">>)
                 \/ Contains(LowerText(section), <<"dlower">>) THEN
             <<"SRC", SP>> \o stripped \o <<NL, NL>>
      ELSE IF Contains(section, <<"*", "*">>) \/ Contains(section, <<"_", "_">>) THEN
             stripped \o <<NL, NL>>
      ELSE stripped \o <<NL, NL>>

RECURSIVE FormatSections(_)
FormatSections(sections) ==
  IF sections = <<>> THEN <<>>
  ELSE FormatSection(Head(sections)) \o FormatSections(Tail(sections))

(* the "### 📰 {title} - {date}\n\n" line *)
DatedHeading(title, date) ==
  <<"#", "#", "#", SP, "P", SP>> \o title \o <<SP, "-", SP>> \o date

format_daily_summary(content, title, date) ==
  IF content = NoContent THEN Error
  ELSE Strip(DatedHeading(title, date) \o <<NL, NL>> \o FormatSections(SplitBlank(content)))

----------------------------------------------------------------------------
(* ReadmeUpdaterTool._create_new_readme *)

create_new_readme(formatted_summary) ==
  <<"#", SP, "TPL1", NL, NL, "TPL2", NL, NL>>
    \o HEADING \o <<NL, NL>> \o formatted_summary \o <<NL, NL>>
    \o FEATURES \o <<NL, NL, "TPL3", NL>>

----------------------------------------------------------------------------
(* ReadmeUpdaterTool._insert_new_summary_section *)

insert_new_summary_section(current_readme, formatted_summary) ==
  LET insert_point == Find(current_readme, FEATURES)
      section == HEADING \o <<NL, NL>> \o formatted_summary \o <<NL, NL>>
  IN  IF insert_point # 0
      THEN Slice(current_readme, 1, insert_point - 1) \o <<NL>> \o section
             \o From(current_readme, insert_point)
      ELSE current_readme \o <<NL, NL>> \o section

----------------------------------------------------------------------------
(* ReadmeUpdaterTool._update_existing_summary_section                       *)
(* pattern (## 📅 Daily Blog Summary\n\n)(.*?)(?=\n## |\n### |$), DOTALL     *)

GROUP1 == HEADING \o <<NL, NL>>

(* the lookahead (?=\n## |\n### |$) at position j; $ without MULTILINE      *)
(* holds at the end of the text and before a final newline                  *)
LookaheadAt(s, j) ==
  \/ StartsAt(s, <<NL, "#", "#", SP>>, j)
  \/ StartsAt(s, <<NL, "#", "#", "#", SP>>, j)
  \/ j = Len(s) + 1
  \/ j = Len(s) /\ s[j] = NL

(* end (exclusive) of the lazy group (.*?) that starts at position k *)
LazyEnd(s, k) ==
  CHOOSE j \in k..(Len(s) + 1) :
    /\ LookaheadAt(s, j)
    /\ \A m \in k..(j - 1) : ~LookaheadAt(s, m)

(* re.search(pattern, s, re.DOTALL) *)
PatternFound(s) == Contains(s, GROUP1)

(* the replacement template: re.sub expands backslash escapes in it.        *)
(* \\ is a backslash, \1 and \2 are the groups, a backslash before an ASCII *)
(* letter that is no escape is an error, before anything else it is kept    *)
RECURSIVE TemplateOK(_)
TemplateOK(t) ==
  IF t = <<>> THEN TRUE
  ELSE IF Head(t) # BS THEN TemplateOK(Tail(t))
  ELSE IF Len(t) = 1 THEN FALSE
  ELSE IF IsAsciiLetter(t[2]) THEN FALSE
  ELSE TemplateOK(From(t, 3))

RECURSIVE ExpandTemplate(_, _, _)
ExpandTemplate(t, g1, g2) ==
  IF t = <<>> THEN <<>>
  ELSE IF Head(t) # BS THEN <<Head(t)>> \o ExpandTemplate(Tail(t), g1, g2)
  ELSE IF t[2] = BS THEN <<BS>> \o ExpandTemplate(From(t, 3), g1, g2)
  ELSE IF t[2] = "1" THEN g1 \o ExpandTemplate(From(t, 3), g1, g2)
  ELSE <<BS, t[2]>> \o ExpandTemplate(From(t, 3), g1, g2)

(* re.sub(pattern, template, s): every non-overlapping match, left to right *)
RECURSIVE SubAll(_, _)
SubAll(s, template) ==
  LET i == Find(s, GROUP1)
  IN  IF i = 0 THEN s
      ELSE LET k == i + Len(GROUP1)
               j == LazyEnd(s, k)
           IN  Slice(s, 1, i - 1)
                 \o ExpandTemplate(template, GROUP1, Slice(s, k, j - 1))
                 \o SubAll(From(s, j), template)

update_existing_summary_section(current_readme, formatted_summary) ==
  LET new_summary_section == HEADING \o <<NL, NL>> \o formatted_summary \o <<NL, NL>>
  IN  IF PatternFound(current_readme)
      THEN IF TemplateOK(new_summary_section)
           THEN SubAll(current_readme, new_summary_section)
           ELSE Error
      ELSE current_readme \o <<NL, NL>> \o new_summary_section

----------------------------------------------------------------------------
(* ReadmeUpdaterTool._update_readme_content *)

update_readme_content(file, formatted_summary) ==
  IF file = NoFile THEN create_new_readme(formatted_summary)
  ELSE IF Contains(file, HEADING)
       THEN update_existing_summary_section(file, formatted_summary)
       ELSE insert_new_summary_section(file, formatted_summary)

----------------------------------------------------------------------------
(* ReadmeUpdaterTool._run: format, update in memory, then write the file.   *)
(* now is datetime.now(); io is what the file system does in this call:     *)
(* "read_fails" makes open(..., 'r') or read() raise, "write_fails" makes   *)
(* f.write raise after open(..., 'w') has truncated the file.               *)

EffectiveDate(date, now) == IF date = <<>> THEN now ELSE date

(* a variant that opens README.md for writing before the update is computed *)
ReadmeUpdaterTool_run_WriteFirst(file, summary_content, date, title, now, io) ==
  LET formatted_summary == format_daily_summary(summary_content, title, EffectiveDate(date, now))
  IN  IF formatted_summary = Error
      THEN [file |-> file, result |-> "error", stage |-> "format"]
      ELSE IF file # NoFile /\ io = "read_fails"
      THEN [file |-> file, result |-> "error", stage |-> "read"]
      ELSE LET updated_readme == update_readme_content(file, formatted_summary)
           IN  IF updated_readme = Error
               THEN [file |-> <<>>, result |-> "error", stage |-> "replace"]
               ELSE IF io = "write_fails"
               THEN [file |-> <<>>, result |-> "error", stage |-> "write"]
               ELSE [file |-> updated_readme, result |-> "ok", stage |-> "none"]

ReadmeUpdaterTool_run(file, summary_content, date, title, now, io) ==
  LET formatted_summary == format_daily_summary(summary_content, title, EffectiveDate(date, now))
  IN  IF formatted_summary = Error
      THEN [file |-> file, result |-> "error", stage |-> "format"]
      ELSE IF file # NoFile /\ io = "read_fails"
      THEN [file |-> file, result |-> "error", stage |-> "read"]
      ELSE LET updated_readme == update_readme_content(file, formatted_summary)
           IN  IF updated_readme = Error
               THEN [file |-> file, result |-> "error", stage |-> "replace"]
               ELSE IF io = "write_fails"
               THEN [file |-> <<>>, result |-> "error", stage |-> "write"]
               ELSE [file |-> updated_readme, result |-> "ok", stage |-> "none"]

----------------------------------------------------------------------------
(* EmailerTool (tools/emailer_tool.py)                                      *)
(*                                                                          *)
(* What one call of sg.send does is the environment's choice:               *)
(*   kind    "response" (send returned), "HTTPError" (send raised the       *)
(*           client's HTTPError), "Exception" (anything else was raised)    *)
(*   status  the HTTP status code; 0 when there is none                     *)
(*   body    "regional" stands for a body holding  regional attribute ,     *)
(*           "Regional" for one holding  Regional Attribute , "other" for   *)
(*           a body without those words                                     *)

(* body.lower() *)
LowerBody(body) == IF body = "Regional" THEN "regional" ELSE body

(* response.status_code in [200, 201, 202] *)
SendSucceeded(o) == o.kind = "response" /\ o.status \in {200, 201, 202}

(* a variant that retries on any 401 of the provider *)
IsRegionalMismatch_Any401(o) == o.kind = "HTTPError" /\ o.status = 401

(* "regional attribute" in body.lower() and getattr(e, 'status_code', 0) == 401, *)
(* in the except HTTPError branch                                           *)
IsRegionalMismatch(o) ==
  /\ o.kind = "HTTPError"
  /\ LowerBody(o.body) = "regional"
  /\ o.status = 401

(* a variant that always moves to the EU region *)
switch_region_and_reinit_AlwaysEU(eu) == TRUE

(* EmailerTool._switch_region_and_reinit: the new value of eu_residency *)
switch_region_and_reinit(eu) == ~eu

Attempt(i, eu, o, isRetry) == [to |-> i, eu |-> eu, outcome |-> o, retry |-> isRetry]

(* a variant in which an exception other than HTTPError leaves the loop *)
send_iteration_AbortOnException(i, entry, eu, count, o, r) ==
  IF entry = "noemail"
  THEN [sends |-> <<>>, eu |-> eu, count |-> count, raised |-> TRUE]
  ELSE IF SendSucceeded(o)
  THEN [sends |-> <<Attempt(i, eu, o, FALSE)>>, eu |-> eu, count |-> count + 1, raised |-> FALSE]
  ELSE IF IsRegionalMismatch(o)
  THEN [sends |-> <<Attempt(i, eu, o, FALSE), Attempt(i, switch_region_and_reinit(eu), r, TRUE)>>,
        eu |-> switch_region_and_reinit(eu),
        count |-> IF SendSucceeded(r) THEN count + 1 ELSE count,
        raised |-> FALSE]
  ELSE [sends |-> <<Attempt(i, eu, o, FALSE)>>, eu |-> eu, count |-> count,
        raised |-> o.kind = "Exception"]

(* one pass of the loop "for emailer in emailer_list": o is what the send   *)
(* does, r what the retry does if there is one.  raised: an exception left  *)
(* the loop (emailer["email"] of an entry without that key)                 *)
send_iteration(i, entry, eu, count, o, r) ==
  IF entry = "noemail"
  THEN [sends |-> <<>>, eu |-> eu, count |-> count, raised |-> TRUE]
  ELSE IF SendSucceeded(o)
  THEN [sends |-> <<Attempt(i, eu, o, FALSE)>>, eu |-> eu, count |-> count + 1, raised |-> FALSE]
  ELSE IF IsRegionalMismatch(o)
  THEN [sends |-> <<Attempt(i, eu, o, FALSE), Attempt(i, switch_region_and_reinit(eu), r, TRUE)>>,
        eu |-> switch_region_and_reinit(eu),
        count |-> IF SendSucceeded(r) THEN count + 1 ELSE count,
        raised |-> FALSE]
  ELSE [sends |-> <<Attempt(i, eu, o, FALSE)>>, eu |-> eu, count |-> count, raised |-> FALSE]

(* a variant without the check that the recipient list is a non-empty list *)
emailer_precheck_NoListCheck(client, list, template) ==
  IF ~client THEN "not_initialized"
  ELSE IF list.state = "missing" THEN "list_not_found"
  ELSE IF list.state = "badjson" THEN "tool_error"
  ELSE IF template = "missing" THEN "template_not_found"
  ELSE IF template = "bad" THEN "tool_error"
  ELSE "go"

(* the part of _run before the loop: the result it returns, or "go"         *)
(*   "not_initialized"     Error: SendGrid not initialized. ...             *)
(*   "list_not_found"      Error: emailer_list.json file not found          *)
(*   "list_required"       Email delivery failed. A recipient email list... *)
(*   "template_not_found"  Error: email_template.html not found             *)
(*   "tool_error"          Error in emailer tool: ... (the outer except)    *)
emailer_precheck(client, list, template) ==
  IF ~client THEN "not_initialized"
  ELSE IF list.state = "missing" THEN "list_not_found"
  ELSE IF list.state = "badjson" THEN "tool_error"
  ELSE IF list.state = "notlist" \/ Len(list.entries) = 0 THEN "list_required"
  ELSE IF template = "missing" THEN "template_not_found"
  ELSE IF template = "bad" THEN "tool_error"
  ELSE "go"

(* the return after the loop *)
emailer_result(count) == IF count > 0 THEN "sent" ELSE "failed_all"

MaxRecipients == 3

(* emailer_list.json: absent, no JSON, JSON that is no list, or a list of   *)
(* entries; an entry is "ok" (it has an "email") or "noemail"                *)
RECURSIVE EntryLists(_)
EntryLists(n) ==
  IF n = 0 THEN {<<>>}
  ELSE EntryLists(n - 1) \cup
       {Append(l, e) : l \in {m \in EntryLists(n - 1) : Len(m) = n - 1}, e \in {"ok", "noemail"}}

ListFiles ==
  {[state |-> st, entries |-> <<>>] : st \in {"missing", "badjson", "notlist"}}
    \cup {[state |-> "list", entries |-> l] : l \in EntryLists(MaxRecipients)}

Templates == {"missing", "bad", "ok"}

FirstOutcomes ==
  { [kind |-> "response", status |-> 202, body |-> "other"],
    [kind |-> "response", status |-> 401, body |-> "regional"],
    [kind |-> "HTTPError", status |-> 401, body |-> "regional"],
    [kind |-> "HTTPError", status |-> 401, body |-> "Regional"],
    [kind |-> "HTTPError", status |-> 401, body |-> "other"],
    [kind |-> "HTTPError", status |-> 403, body |-> "regional"],
    [kind |-> "Exception", status |-> 0, body |-> "other"] }

RetryOutcomes ==
  { [kind |-> "response", status |-> 202, body |-> "other"],
    [kind |-> "response", status |-> 500, body |-> "other"],
    [kind |-> "HTTPError", status |-> 401, body |-> "regional"],
    [kind |-> "Exception", status |-> 0, body |-> "other"] }

NoOutcome == [kind |-> "none", status |-> 0, body |-> "other"]

NoCfg == [list |-> [state |-> "missing", entries |-> <<>>], template |-> "missing"]

(* EmailerTool.__init__: the client exists iff SENDGRID_API_KEY is set, the *)
(* region flag is SENDGRID_EU_RESIDENCY; nothing writes that environment    *)
(* variable afterwards                                                      *)
EmailerInit ==
  /\ sg \in BOOLEAN
  /\ SENDGRID_EU_RESIDENCY \in BOOLEAN
  /\ eu_residency = SENDGRID_EU_RESIDENCY
  /\ epc = "idle"
  /\ cfg = NoCfg
  /\ emailer_list = <<>>
  /\ idx = 0
  /\ sends = <<>>
  /\ success_count = 0
  /\ emailResult = "none"

(* EmailerTool._run up to the loop *)
EmailerStart(list, template) ==
  /\ epc = "idle"
  /\ cfg' = [list |-> list, template |-> template]
  /\ \E pre \in {emailer_precheck(sg, list, template)} :
       IF pre = "go" /\ Len(list.entries) > 0
       THEN /\ epc' = "sending"
            /\ emailer_list' = list.entries
            /\ emailResult' = "none"
       ELSE IF pre = "go"
       THEN /\ epc' = "done"
            /\ emailer_list' = list.entries
            /\ emailResult' = emailer_result(success_count)
       ELSE /\ epc' = "done"
            /\ emailer_list' = <<>>
            /\ emailResult' = pre
  /\ UNCHANGED <<sg, eu_residency, SENDGRID_EU_RESIDENCY, idx, sends, success_count>>
  /\ UNCHANGED notEmailerVars

(* one pass of the send loop; the last pass returns *)
SendNext(o, r) ==
  /\ epc = "sending"
  /\ idx < Len(emailer_list)
  /\ \E it \in {send_iteration(idx + 1, emailer_list[idx + 1], eu_residency, success_count, o, r)} :
       /\ sends' = sends \o it.sends
       /\ eu_residency' = it.eu
       /\ success_count' = it.count
       /\ IF it.raised
          THEN /\ epc' = "done"
               /\ emailResult' = "tool_error"
               /\ idx' = idx
          ELSE /\ idx' = idx + 1
               /\ IF idx + 1 = Len(emailer_list)
                  THEN epc' = "done" /\ emailResult' = emailer_result(it.count)
                  ELSE epc' = "sending" /\ emailResult' = "none"
  /\ UNCHANGED <<sg, SENDGRID_EU_RESIDENCY, cfg, emailer_list>>
  /\ UNCHANGED notEmailerVars

SendFirstOnly(o) ==
  /\ ~IsRegionalMismatch(o)
  /\ SendNext(o, NoOutcome)

SendAndRetry(o, r) ==
  /\ IsRegionalMismatch(o)
  /\ SendNext(o, r)

EmailerNext ==
  \/ \E list \in ListFiles, template \in Templates : EmailerStart(list, template)
  \/ \E o \in FirstOutcomes : SendFirstOnly(o)
  \/ \E o \in FirstOutcomes, r \in RetryOutcomes : SendAndRetry(o, r)

----------------------------------------------------------------------------
(* The README state machine *)

MaxUpserts == 2

Titles == {<<"T1">>}

Dates == {<<"d1">>, <<"d2">>}

(* datetime.now().strftime("%Y-%m-%d") during the run *)
Today == <<"d2">>

(* summary_content values: plain text, a paragraph holding a heading line,  *)
(* a heading, a list and a source link, a backslash before a letter, and a  *)
(* value that is no string                                                  *)
Contents ==
  { <<"x">>,
    <<"x", NL, "#", "#", SP, "y">>,
    <<"#", SP, "y", NL, NL, "-", SP, "y", NL, NL, "http", "Blog">>,
    <<"x", BS, "y">>,
    <<"x", BS, BS, "y">>,
    NoContent }

(* README.md before the first call: absent, or a text with at most one      *)
(* digest heading                                                           *)
StartReadmes ==
  { NoFile,
    <<"intro", NL>>,
    <<"intro", NL, NL>> \o FEATURES \o <<NL, "feat", NL>>,
    <<"intro", NL, "#">> \o FEATURES \o <<NL, "feat", NL>>,
    <<"intro", NL, NL>> \o HEADING \o <<NL, NL, "old", NL, NL>> \o FEATURES \o <<NL, "feat", NL>>,
    <<"intro", NL, NL>> \o HEADING \o <<NL, "old", NL, NL>> \o FEATURES \o <<NL, "feat", NL>>,
    HEADING \o <<NL, NL, "old", NL, "#", SP, "intro", NL, "#", "#", "#", SP, "feat", NL>>,
    HEADING \o <<NL, NL, "old">> }

NoArgs == [content |-> NoContent, title |-> <<>>, date |-> <<>>]

ReadmeInit ==
  /\ readme \in StartReadmes
  /\ prev = readme
  /\ lastArgs = NoArgs
  /\ prevArgs = NoArgs
  /\ result = "none"
  /\ errStage = "none"
  /\ prevResult = "none"
  /\ calls = 0

Upsert(summary_content, date, title, now, io) ==
  /\ calls < MaxUpserts
  /\ \E r \in {ReadmeUpdaterTool_run(readme, summary_content, date, title, now, io)} :
       /\ readme' = r.file
       /\ result' = r.result
       /\ errStage' = r.stage
  /\ prev' = readme
  /\ prevArgs' = lastArgs
  /\ prevResult' = result
  /\ lastArgs' = [content |-> summary_content, title |-> title, date |-> EffectiveDate(date, now)]
  /\ calls' = calls + 1
  /\ UNCHANGED notReadmeVars

ReadmeNext ==
  \E summary_content \in Contents, date \in Dates \cup {<<>>}, title \in Titles,
     now \in {Today}, io \in {"ok", "read_fails", "write_fails"} :
       Upsert(summary_content, date, title, now, io)

----------------------------------------------------------------------------
(* RssFeedExtractorTool._find_rss_feed (tools/rss_feed_extractor_tool.py)   *)
(*                                                                          *)
(* A candidate URL f"{blog_url}{suffix}" is the pair <<blog_url, suffix>>.  *)
(* The probe is what session.get(blog_url, timeout=10) does: it returns a   *)
(* response with a status code and a text (a sequence of characters), or it *)
(* raises.                                                                  *)

BasePatterns == <<"/rss", "/feed", "/rss.xml", "/feed.xml", "/atom.xml", "/rss/", "/feed/">>

ExtraPatterns == <<"/rss/feed", "/feed/rss", "/blog/rss", "/blog/feed">>

WithUrl(url, suffixes) == [i \in 1..Len(suffixes) |-> <<url, suffixes[i]>>]

(* str.lower() on one character of the page *)
LowerChar(c) ==
  CASE c = "R" -> "r"
    [] c = "S" -> "s"
    [] c = "F" -> "f"
    [] c = "E" -> "e"
    [] c = "D" -> "d"
    [] OTHER -> c

LowerPage(t) == [i \in 1..Len(t) |-> LowerChar(t[i])]

(* a variant that looks for the words in the page as it is *)
find_rss_feed_CaseSensitive(url, p) ==
  IF /\ p.kind = "response"
     /\ p.status = 200
     /\ \/ Contains(p.text, <<"r", "s", "s">>)
        \/ Contains(p.text, <<"f", "e", "e", "d">>)
  THEN WithUrl(url, BasePatterns) \o WithUrl(url, ExtraPatterns)
  ELSE WithUrl(url, BasePatterns)

find_rss_feed(url, p) ==
  IF /\ p.kind = "response"
     /\ p.status = 200
     /\ \/ Contains(LowerPage(p.text), <<"r", "s", "s">>)
        \/ Contains(LowerPage(p.text), <<"f", "e", "e", "d">>)
  THEN WithUrl(url, BasePatterns) \o WithUrl(url, ExtraPatterns)
  ELSE WithUrl(url, BasePatterns)

MaxLocates == 2

BlogUrls == {"https://a.example", "https://b.example/blog", "https://c.example/"}

PageTexts ==
  { <<>>,
    <<"h", "t", "m", "l">>,
    <<"a", "r", "s", "s", "b">>,
    <<"R", "S", "S">>,
    <<"F", "e", "e", "d">>,
    <<"r", "s", "f", "e", "d">> }

Probes ==
  {[kind |-> "response", status |-> st, text |-> t] : st \in {200, 404, 500}, t \in PageTexts}
    \cup {[kind |-> k, status |-> 0, text |-> <<>>] : k \in {"timeout", "connection_error"}}

NoProbe == [kind |-> "none", status |-> 0, text |-> <<>>]

LocatorInit ==
  /\ blog_url = "none"
  /\ probe = NoProbe
  /\ rss_patterns = <<>>
  /\ locCalls = 0

FindRssFeed(url, p) ==
  /\ locCalls < MaxLocates
  /\ blog_url' = url
  /\ probe' = p
  /\ rss_patterns' = find_rss_feed(url, p)
  /\ locCalls' = locCalls + 1
  /\ UNCHANGED notLocatorVars

LocatorNext == \E url \in BlogUrls, p \in Probes : FindRssFeed(url, p)

----------------------------------------------------------------------------
(* RssFeedExtractorTool._extract_posts_from_rss and _is_today               *)
(*                                                                          *)
(* The text of an entry (title, summary, content value) and the topic are   *)
(* sequences of characters.  A published string is a sequence of chunks,    *)
(* written as RFC 822 dates are: <<day, time, zone>> stands for             *)
(* "Sun, 01 Nov 2026 01:00:00 +0000"; <<>> is the empty string and          *)
(* <<"soon">> a string that is no date.  Chunks in the same position have   *)
(* the same width, so comparing two published strings character by          *)
(* character is comparing them chunk by chunk with ChunkRank.               *)

(* the order of the chunks as strings: by their first characters            *)
(* '+' < '-' < '0' < '2' < 'M' < 'S' < 's', then "Sa" < "Su"                *)
ChunkRank(c) ==
  CASE c = "+0000" -> 1
    [] c = "+0500" -> 2
    [] c = "-0500" -> 3
    [] c = "01:00:00" -> 4
    [] c = "23:00:00" -> 5
    [] c = "Mon, 02 Nov 2026" -> 6
    [] c = "Sat, 31 Oct 2026" -> 7
    [] c = "Sun, 01 Nov 2026" -> 8
    [] c = "soon" -> 9

(* a < b on str *)
RECURSIVE StrLess(_, _)
StrLess(a, b) ==
  IF a = <<>> THEN b # <<>>
  ELSE IF b = <<>> THEN FALSE
  ELSE IF a[1] # b[1] THEN ChunkRank(a[1]) < ChunkRank(b[1])
  ELSE StrLess(Tail(a), Tail(b))

(* list.sort(key=lambda x: x.get('published', ''), reverse=True): the sort  *)
(* is stable, also with reverse=True, so p goes behind every element whose  *)
(* key is not smaller than its own                                          *)
RECURSIVE InsertDesc(_, _)
InsertDesc(sorted, p) ==
  IF sorted = <<>> THEN <<p>>
  ELSE IF StrLess(Head(sorted).published, p.published)
       THEN <<p>> \o sorted
       ELSE <<Head(sorted)>> \o InsertDesc(Tail(sorted), p)

(* a variant that sorts the oldest string first *)
RECURSIVE InsertAsc(_, _)
InsertAsc(sorted, p) ==
  IF sorted = <<>> THEN <<p>>
  ELSE IF StrLess(p.published, Head(sorted).published)
       THEN <<p>> \o sorted
       ELSE <<Head(sorted)>> \o InsertAsc(Tail(sorted), p)

RECURSIVE SortAsc(_)
SortAsc(posts) ==
  IF posts = <<>> THEN <<>>
  ELSE InsertAsc(SortAsc(Slice(posts, 1, Len(posts) - 1)), posts[Len(posts)])

RECURSIVE SortDesc(_)
SortDesc(posts) ==
  IF posts = <<>> THEN <<>>
  ELSE InsertDesc(SortDesc(Slice(posts, 1, Len(posts) - 1)), posts[Len(posts)])

(* posts[:max_posts] *)
Take(posts, n) ==
  IF n >= 0
  THEN Slice(posts, 1, IF n < Len(posts) THEN n ELSE Len(posts))
  ELSE Slice(posts, 1, Len(posts) + n)

(* str.split(): the maximal runs of characters that are no whitespace *)
RECURSIVE SplitWs(_)
SplitWs(s) ==
  LET t == LStripBy(s, {SP, NL})
      i == IF \E k \in 1..Len(t) : t[k] \in {SP, NL}
           THEN CHOOSE k \in 1..Len(t) :
                  /\ t[k] \in {SP, NL}
                  /\ \A m \in 1..(k - 1) : t[m] \notin {SP, NL}
           ELSE Len(t) + 1
  IN  IF t = <<>> THEN <<>>
      ELSE <<Slice(t, 1, i - 1)>> \o SplitWs(From(t, i))

(* entry.get('content', [{}])[0].get('value', '') if entry.get('content') else '' *)
ContentValue(entry) == IF entry.content = <<>> THEN <<>> ELSE entry.content[1]

(* a variant that looks for the keywords in the title only *)
IsRelevant_TitleOnly(entry, topic) ==
  \E i \in 1..Len(SplitWs(LowerPage(topic))) :
     Contains(LowerPage(entry.title), SplitWs(LowerPage(topic))[i])

(* any(keyword in title or keyword in summary or keyword in content         *)
(*     for keyword in topic.lower().split())                                *)
IsRelevant(entry, topic) ==
  LET keywords == SplitWs(LowerPage(topic))
  IN  \E i \in 1..Len(keywords) :
         \/ Contains(LowerPage(entry.title), keywords[i])
         \/ Contains(LowerPage(entry.summary), keywords[i])
         \/ Contains(LowerPage(ContentValue(entry)), keywords[i])

(* The date a published string states: the day of the chunk (31 Oct is day  *)
(* 0, 1 Nov day 1, 2 Nov day 2), its hour and the hours of its zone         *)
IsDateString(s) ==
  /\ Len(s) = 3
  /\ s[1] \in {"Sat, 31 Oct 2026", "Sun, 01 Nov 2026", "Mon, 02 Nov 2026"}
  /\ s[2] \in {"01:00:00", "23:00:00"}
  /\ s[3] \in {"+0000", "+0500", "-0500"}

DayOf(c) == CASE c = "Sat, 31 Oct 2026" -> 0 [] c = "Sun, 01 Nov 2026" -> 1 [] c = "Mon, 02 Nov 2026" -> 2

HourOf(c) == CASE c = "01:00:00" -> 1 [] c = "23:00:00" -> 23

ZoneOf(c) == CASE c = "+0000" -> 0 [] c = "+0500" -> 5 [] c = "-0500" -> -5

(* feedparser._parse_date(date_str).  lib is the feedparser the tool runs   *)
(* with.  feedparser 6 keeps the function in feedparser.datetimes, the      *)
(* package has no attribute _parse_date and the call raises AttributeError. *)
(* feedparser 5 returns None for a string no handler parses and otherwise   *)
(* a time.struct_time, the 9-tuple of the date in GMT; of its fields the    *)
(* model keeps the day and the hour.                                        *)
parse_date(date_str, lib) ==
  IF lib = "feedparser6" THEN [kind |-> "AttributeError"]
  ELSE IF ~IsDateString(date_str) THEN [kind |-> "None"]
  ELSE LET h == HourOf(date_str[2]) - ZoneOf(date_str[3])
           d == DayOf(date_str[1])
       IN  [kind |-> "struct_time",
            tm_mday |-> IF h < 0 THEN d - 1 ELSE IF h >= 24 THEN d + 1 ELSE d,
            tm_hour |-> IF h < 0 THEN h + 24 ELSE IF h >= 24 THEN h - 24 ELSE h]

(* _is_today.  today is datetime.now(timezone.utc).date().  A struct_time   *)
(* has no attribute tzinfo: reading it raises AttributeError inside the     *)
(* try, the bare except passes and the method returns False.  Only a        *)
(* datetime gets as far as the comparison of the dates.                     *)
is_today(date_str, lib, today) ==
  IF date_str = <<>> THEN FALSE
  ELSE LET parsed_date == parse_date(date_str, lib)
       IN  CASE parsed_date.kind = "AttributeError" -> FALSE
             [] parsed_date.kind = "None" -> FALSE
             [] parsed_date.kind = "struct_time" -> FALSE
             [] parsed_date.kind = "datetime" -> parsed_date.date = today

(* the post dictionary of an entry *)
PostOf(entry, rss_url, blog_name, blog_url_, now) ==
  [title |-> entry.title, link |-> entry.link, published |-> entry.published,
   summary |-> entry.summary, blog_name |-> blog_name, blog_url |-> blog_url_,
   rss_url |-> rss_url, extracted_at |-> now]

RECURSIVE RelevantPosts(_, _, _, _, _, _)
RelevantPosts(entries, rss_url, blog_name, blog_url_, topic, now) ==
  IF entries = <<>> THEN <<>>
  ELSE (IF IsRelevant(Head(entries), topic)
        THEN <<PostOf(Head(entries), rss_url, blog_name, blog_url_, now)>>
        ELSE <<>>)
       \o RelevantPosts(Tail(entries), rss_url, blog_name, blog_url_, topic, now)

Select(posts, lib, today, want) ==
  SelectSeq(posts, LAMBDA p : is_today(p.published, lib, today) = want)

(* the two lists the loop over feed.entries fills (lines 132-160) *)
partition_posts(entries, rss_url, blog_name, blog_url_, topic, lib, now) ==
  LET posts == RelevantPosts(entries, rss_url, blog_name, blog_url_, topic, now)
  IN  [today_posts |-> Select(posts, lib, now.today, TRUE),
       other_posts |-> Select(posts, lib, now.today, FALSE)]

(* lines 162-172: today's posts first, else the latest *)
select_posts(part, max_posts) ==
  IF part.today_posts # <<>>
  THEN Take(SortDesc(part.today_posts), max_posts)
  ELSE Take(SortDesc(part.other_posts), max_posts)

NoPartition == [today_posts |-> <<>>, other_posts |-> <<>>]

(* a variant that parses whatever body the server sent, whatever the status *)
extract_posts_from_rss_AnyStatus(resp, rss_url, blog_name, blog_url_, topic, max_posts, lib, now) ==
  IF resp.kind # "response" THEN [posts |-> <<>>, part |-> NoPartition, raised |-> FALSE]
  ELSE IF resp.parse = "raises" THEN [posts |-> <<>>, part |-> NoPartition, raised |-> FALSE]
  ELSE LET part == partition_posts(resp.entries, rss_url, blog_name, blog_url_, topic, lib, now)
       IN  [posts |-> select_posts(part, max_posts), part |-> part, raised |-> FALSE]

(* _extract_posts_from_rss.  resp is what session.get(rss_url, timeout=10)  *)
(* does: it raises (kind "timeout", "connection_error") or returns a        *)
(* response with a status and a body; resp.parse tells whether              *)
(* feedparser.parse(response.content) raises, resp.entries are the entries  *)
(* it finds (none in a body that is no feed).  Every exception ends in the  *)
(* handler of line 174, which returns [], so the method raises nothing.     *)
(* The result is the returned list, the two lists as they were when the     *)
(* method returned, and whether an exception left the method.               *)
extract_posts_from_rss(resp, rss_url, blog_name, blog_url_, topic, max_posts, lib, now) ==
  IF resp.kind # "response" THEN [posts |-> <<>>, part |-> NoPartition, raised |-> FALSE]
  ELSE IF resp.status # 200 THEN [posts |-> <<>>, part |-> NoPartition, raised |-> FALSE]
  ELSE IF resp.parse = "raises" THEN [posts |-> <<>>, part |-> NoPartition, raised |-> FALSE]
  ELSE LET part == partition_posts(resp.entries, rss_url, blog_name, blog_url_, topic, lib, now)
       IN  [posts |-> select_posts(part, max_posts), part |-> part, raised |-> FALSE]

(* The feeds the Fetcher is run on *)
MaxEntries == 2

MaxPosts == 2

Entry(title, summary, content, published, link) ==
  [title |-> title, summary |-> summary, content |-> content, published |-> published, link |-> link]

FeedEntries ==
  { Entry(<<"R", "s">>, <<>>, <<>>, <<"Sun, 01 Nov 2026", "01:00:00", "+0000">>, "/a"),
    Entry(<<"s">>, <<"e">>, <<>>, <<"Sat, 31 Oct 2026", "23:00:00", "+0000">>, "/b"),
    Entry(<<"d">>, <<>>, << <<"r">>, <<"e">> >>, <<"Sun, 01 Nov 2026", "23:00:00", "-0500">>, "/c"),
    Entry(<<"r">>, <<"d">>, <<>>, <<"Mon, 02 Nov 2026", "01:00:00", "+0500">>, "/d"),
    Entry(<<"r", SP, "d">>, <<>>, <<>>, <<>>, "/e"),
    Entry(<<"e">>, <<"r">>, <<>>, <<"soon">>, "/f") }

RECURSIVE Feeds(_)
Feeds(n) ==
  IF n = 0 THEN {<<>>}
  ELSE Feeds(n - 1) \cup {Append(f, e) : f \in {g \in Feeds(n - 1) : Len(g) = n - 1}, e \in FeedEntries}

Topics == {<<>>, <<SP>>, <<"r">>, <<"R">>, <<"s", "e">>, <<"r", SP, "e">>}

Response(status, parse, entries) ==
  [kind |-> "response", status |-> status, parse |-> parse, entries |-> entries]

FeedResponses ==
  {Response(200, "ok", f) : f \in Feeds(MaxEntries)}
    \cup {Response(st, "ok", f) : st \in {404, 500}, f \in {g \in Feeds(MaxEntries) : Len(g) = 1}}
    \cup {Response(200, "raises", <<>>)}
    \cup {[kind |-> k, status |-> 0, parse |-> "ok", entries |-> <<>>] : k \in {"timeout", "connection_error"}}

NoResponse == [kind |-> "none", status |-> 0, parse |-> "ok", entries |-> <<>>]

Libs == {"feedparser5", "feedparser6"}

(* the clock: today is the UTC day of datetime.now(timezone.utc), 1 Nov *)
Now == [today |-> 1, iso |-> "2026-11-01T12:00:00"]

(* the blog and the candidate URL the Fetcher is called for *)
FeedBlog == [name |-> "A", url |-> "https://a.example"]

FeedUrl == <<FeedBlog.url, "/rss">>

NoFetchArgs == [topic |-> <<>>, max_posts |-> 0, lib |-> "none"]

FetcherInit ==
  /\ fetch_resp = NoResponse
  /\ fetch_args = NoFetchArgs
  /\ fetch_posts = <<>>
  /\ fetch_part = NoPartition
  /\ fetch_raised = FALSE
  /\ fetch_done = FALSE

(* one call of _extract_posts_from_rss *)
ExtractPosts(resp, topic, max_posts, lib) ==
  /\ ~fetch_done
  /\ \E r \in {extract_posts_from_rss(resp, FeedUrl, FeedBlog.name, FeedBlog.url, topic, max_posts, lib, Now)} :
       /\ fetch_posts' = r.posts
       /\ fetch_part' = r.part
       /\ fetch_raised' = r.raised
  /\ fetch_resp' = resp
  /\ fetch_args' = [topic |-> topic, max_posts |-> max_posts, lib |-> lib]
  /\ fetch_done' = TRUE
  /\ UNCHANGED notFetcherVars

FetcherNext ==
  \E resp \in FeedResponses, topic \in Topics, max_posts \in 0..MaxPosts, lib \in Libs :
     ExtractPosts(resp, topic, max_posts, lib)

----------------------------------------------------------------------------
(* RssFeedExtractorTool._run, the aggregator.  One step of the model is     *)
(* one round of the loop over rss_urls: one call of _extract_posts_from_rss *)
(* and what follows it up to the next call or the return.                   *)

(* line 63: if posts, inside the try of line 61 whose handler goes on with  *)
(* the next candidate                                                       *)
feed_works(r) == ~r.raised /\ r.posts # <<>>

(* a variant that goes on to the next candidate after a feed that worked *)
after_fetch_NoBreak(works, cand, ncands) ==
  IF cand < ncands THEN "next_candidate" ELSE "next_blog"

(* lines 60-68: break after the first feed that works, else go on with the  *)
(* next candidate; the loop over the blogs goes on when the candidates end  *)
after_fetch(works, cand, ncands) ==
  IF works THEN "next_blog"
  ELSE IF cand < ncands THEN "next_candidate" ELSE "next_blog"

(* a variant that reports an empty list as a result *)
run_result_EmptySuccess(posts, topic, now) ==
  [kind |-> "result", topic |-> topic, total_posts |-> Len(posts),
   extraction_date |-> now.iso, posts |-> SortDesc(posts)]

(* a variant that leaves the posts in the order of the blogs *)
run_result_Unsorted(posts, topic, now) ==
  IF posts = <<>>
  THEN [kind |-> "no_posts", topic |-> topic, total_posts |-> 0, extraction_date |-> now.iso, posts |-> <<>>]
  ELSE [kind |-> "result", topic |-> topic, total_posts |-> Len(posts),
        extraction_date |-> now.iso, posts |-> posts]

(* lines 70-81: "No posts found from any RSS feeds", or the posts sorted    *)
(* and counted                                                              *)
run_result(posts, topic, now) ==
  IF posts = <<>>
  THEN [kind |-> "no_posts", topic |-> topic, total_posts |-> 0, extraction_date |-> now.iso, posts |-> <<>>]
  ELSE [kind |-> "result", topic |-> topic, total_posts |-> Len(posts),
        extraction_date |-> now.iso, posts |-> SortDesc(posts)]

(* line 46: "Error: blog_sources.json file not found" *)
SourcesNotFound(topic, now) ==
  [kind |-> "sources_not_found", topic |-> topic, total_posts |-> 0, extraction_date |-> now.iso, posts |-> <<>>]

NoResult == [kind |-> "none", topic |-> <<>>, total_posts |-> 0, extraction_date |-> "none", posts |-> <<>>]

MaxBlogs == 2

Blogs ==
  { [name |-> "A", url |-> "https://a.example"],
    [name |-> "B", url |-> "https://b.example/blog"] }

RECURSIVE BlogLists(_)
BlogLists(n) ==
  IF n = 0 THEN {<<>>}
  ELSE BlogLists(n - 1) \cup {Append(l, b) : l \in {k \in BlogLists(n - 1) : Len(k) = n - 1}, b \in Blogs}

(* knowledge/blog_sources.json: absent, or a list of blogs *)
SourceFiles ==
  {[exists |-> FALSE, blogs |-> <<>>]} \cup {[exists |-> TRUE, blogs |-> l] : l \in BlogLists(MaxBlogs)}

EntryAt(link) == CHOOSE e \in FeedEntries : e.link = link

AggFeeds == {<<>>, <<EntryAt("/d"), EntryAt("/a")>>}

AggResponses ==
  {Response(200, "ok", f) : f \in AggFeeds}
    \cup {Response(404, "ok", <<EntryAt("/a")>>)}
    \cup {[kind |-> "timeout", status |-> 0, parse |-> "ok", entries |-> <<>>]}

AggTopics == {<<"r", SP, "e">>, <<"s", "e">>}

AggProbes ==
  { [kind |-> "response", status |-> 200, text |-> <<"R", "S", "S">>],
    [kind |-> "timeout", status |-> 0, text |-> <<>>] }

NoAggArgs == [topic |-> <<>>, max_posts |-> 0]

AggregatorInit ==
  /\ agg_pc = "idle"
  /\ agg_args = NoAggArgs
  /\ blog_sources = <<>>
  /\ agg_blog = 0
  /\ rss_urls = <<>>
  /\ agg_cand = 0
  /\ extracted_posts = <<>>
  /\ agg_log = <<>>
  /\ agg_result = NoResult

(* lines 41-58: load the sources and locate the feeds of the first blog;    *)
(* without sources the loop is over at once                                 *)
AggregatorStart(file, topic, max_posts, p) ==
  /\ agg_pc = "idle"
  /\ agg_args' = [topic |-> topic, max_posts |-> max_posts]
  /\ blog_sources' = file.blogs
  /\ extracted_posts' = <<>>
  /\ agg_log' = <<>>
  /\ IF ~file.exists
     THEN /\ agg_result' = SourcesNotFound(topic, Now)
          /\ agg_pc' = "done"
          /\ agg_blog' = 0 /\ rss_urls' = <<>> /\ agg_cand' = 0
     ELSE IF file.blogs = <<>>
     THEN /\ agg_result' = run_result(<<>>, topic, Now)
          /\ agg_pc' = "done"
          /\ agg_blog' = 0 /\ rss_urls' = <<>> /\ agg_cand' = 0
     ELSE /\ agg_result' = NoResult
          /\ agg_pc' = "fetching"
          /\ agg_blog' = 1
          /\ rss_urls' = find_rss_feed(file.blogs[1].url, p)
          /\ agg_cand' = 1
  /\ UNCHANGED notAggregatorVars

(* lines 60-81: fetch the candidate, then break or continue; lib is the     *)
(* feedparser the call runs with, p is what the probe of the next blog does *)
AggregatorFetch(resp, lib, p) ==
  /\ agg_pc = "fetching"
  /\ \E r \in {extract_posts_from_rss(resp, rss_urls[agg_cand], blog_sources[agg_blog].name,
                                      blog_sources[agg_blog].url, agg_args.topic,
                                      agg_args.max_posts, lib, Now)} :
     \E posts \in {IF feed_works(r) THEN extracted_posts \o r.posts ELSE extracted_posts} :
     \E then \in {after_fetch(feed_works(r), agg_cand, Len(rss_urls))} :
       /\ agg_log' = Append(agg_log, [blog |-> agg_blog, url |-> rss_urls[agg_cand],
                                      posts |-> r.posts, raised |-> r.raised])
       /\ extracted_posts' = posts
       /\ IF then = "next_candidate"
          THEN /\ agg_cand' = agg_cand + 1
               /\ UNCHANGED <<agg_blog, rss_urls, agg_pc, agg_result>>
          ELSE IF agg_blog < Len(blog_sources)
          THEN /\ agg_blog' = agg_blog + 1
               /\ rss_urls' = find_rss_feed(blog_sources[agg_blog + 1].url, p)
               /\ agg_cand' = 1
               /\ UNCHANGED <<agg_pc, agg_result>>
          ELSE /\ agg_result' = run_result(posts, agg_args.topic, Now)
               /\ agg_pc' = "done"
               /\ UNCHANGED <<agg_blog, rss_urls, agg_cand>>
  /\ UNCHANGED <<agg_args, blog_sources>>
  /\ UNCHANGED notAggregatorVars

AggregatorNext ==
  \/ \E file \in SourceFiles, topic \in AggTopics, max_posts \in {1, MaxPosts}, p \in AggProbes :
        AggregatorStart(file, topic, max_posts, p)
  \/ \E resp \in AggResponses, lib \in Libs, p \in AggProbes : AggregatorFetch(resp, lib, p)

----------------------------------------------------------------------------
(* MarkdownFormatterTool._format_summary                                    *)
(*                                                                          *)
(* Further chunks of text: "DATE" is  **Date:**  and "post", "article" are  *)
(* those words.                                                             *)

(* one section of the content, as the loop body appends it to formatted *)
SummarySection(section) ==
  LET stripped == Strip(section)
  IN  IF stripped = <<>> THEN <<>>
      ELSE IF StartsWith(stripped, <<"#", "#">>) THEN stripped \o <<NL, NL>>
      ELSE IF \/ StartsWith(stripped, <<"-", SP>>)
              \/ StartsWith(stripped, <<"*", SP>>)
              \/ StartsWith(stripped, <<"1", ".", SP>>) THEN
             stripped \o <<NL>>
      ELSE IF /\ Contains(section, <<"http">>)
              /\ \/ Contains(LowerText(section), <<"blog">>)
                 \/ Contains(LowerText(section), <<"dlower">>)
                 \/ Contains(LowerText(section), <<"post">>)
                 \/ Contains(LowerText(section), <<"article">>) THEN
             <<"SRC", SP>> \o stripped \o <<NL, NL>>
      ELSE stripped \o <<NL, NL>>

RECURSIVE SummarySections(_)
SummarySections(sections) ==
  IF sections = <<>> THEN <<>>
  ELSE SummarySection(Head(sections)) \o SummarySections(Tail(sections))

(* the "# {title}\n\n" and "**Date:** {date}\n\n" lines *)
SummaryHead(title, date) ==
  (IF title # <<>> THEN <<"#", SP>> \o title \o <<NL, NL>> ELSE <<>>)
    \o (IF date # <<>> THEN <<"DATE", SP>> \o date \o <<NL, NL>> ELSE <<>>)

(* a variant that returns formatted as the loop left it *)
format_summary_NoStrip(content, title, date) ==
  SummaryHead(title, date) \o SummarySections(SplitBlank(content))

format_summary(content, title, date) ==
  Strip(SummaryHead(title, date) \o SummarySections(SplitBlank(content)))

(* The contents the formatter is run on: up to MaxSections chunks joined    *)
(* by blank lines                                                           *)
MaxSections == 2

Chunks ==
  { <<>>,
    <<"x">>,
    <<SP, "x", "y", NL>>,
    <<"#", "#", SP, "y">>,
    <<"#", SP, "y">>,
    <<"-", SP, "y">>,
    <<"http", "Blog">>,
    <<"http">> }

RECURSIVE JoinedChunks(_)
JoinedChunks(n) ==
  IF n = 1 THEN Chunks
  ELSE JoinedChunks(n - 1) \cup {c \o <<NL, NL>> \o d : c \in JoinedChunks(n - 1), d \in Chunks}

FormatterInit ==
  /\ md_content = <<>>
  /\ md_title = <<>>
  /\ md_date = <<>>
  /\ md_out = <<>>
  /\ md_done = FALSE

(* MarkdownFormatterTool._run with format_type "summary" *)
FormatSummary(content, title, date) ==
  /\ ~md_done
  /\ md_content' = content
  /\ md_title' = title
  /\ md_date' = date
  /\ md_out' = format_summary(content, title, date)
  /\ md_done' = TRUE
  /\ UNCHANGED notFormatterVars

FormatterNext ==
  \E content \in JoinedChunks(MaxSections), title \in {<<>>, <<"T1">>}, date \in {<<>>, <<"d1">>} :
     FormatSummary(content, title, date)

----------------------------------------------------------------------------
(* The tools are run one at a time: each specification runs one of them and *)
(* leaves the others as constructed                                         *)

ReadmeIdle ==
  /\ readme = NoFile /\ prev = NoFile
  /\ lastArgs = NoArgs /\ prevArgs = NoArgs
  /\ result = "none" /\ errStage = "none" /\ prevResult = "none" /\ calls = 0

EmailerIdle ==
  /\ sg = FALSE /\ eu_residency = FALSE /\ SENDGRID_EU_RESIDENCY = FALSE
  /\ epc = "idle" /\ cfg = NoCfg
  /\ emailer_list = <<>> /\ idx = 0 /\ sends = <<>>
  /\ success_count = 0 /\ emailResult = "none"

InitReadme == ReadmeInit /\ EmailerIdle /\ LocatorInit /\ FetcherInit /\ AggregatorInit /\ FormatterInit

SpecReadme == InitReadme /\ [][ReadmeNext]_vars

InitEmailer == EmailerInit /\ ReadmeIdle /\ LocatorInit /\ FetcherInit /\ AggregatorInit /\ FormatterInit

SpecEmailer == InitEmailer /\ [][EmailerNext]_vars

InitLocator == LocatorInit /\ ReadmeIdle /\ EmailerIdle /\ FetcherInit /\ AggregatorInit /\ FormatterInit

SpecLocator == InitLocator /\ [][LocatorNext]_vars

InitFetcher == FetcherInit /\ ReadmeIdle /\ EmailerIdle /\ LocatorInit /\ AggregatorInit /\ FormatterInit

SpecFetcher == InitFetcher /\ [][FetcherNext]_vars

InitAggregator == AggregatorInit /\ ReadmeIdle /\ EmailerIdle /\ LocatorInit /\ FetcherInit /\ FormatterInit

SpecAggregator == InitAggregator /\ [][AggregatorNext]_vars

InitFormatter == FormatterInit /\ ReadmeIdle /\ EmailerIdle /\ LocatorInit /\ FetcherInit /\ AggregatorInit

SpecFormatter == InitFormatter /\ [][FormatterNext]_vars

----------------------------------------------------------------------------
(* Properties of the README upserter *)

IsPrefix(p, s) == StartsAt(s, p, 1)

IsSuffix(p, s) == Len(p) <= Len(s) /\ StartsAt(s, p, Len(s) - Len(p) + 1)

(* number of places where p occurs in s *)
Count(s, p) == Cardinality({i \in 1..Len(s) : StartsAt(s, p, i)})

(* the prose words of a summary_content *)
Words(c) == {c[i] : i \in 1..Len(c)} \cap {"x", "y"}

Newlines(n) == [i \in 1..n |-> NL]

(* r is a, then mid, then b, with nothing but blank lines between them *)
Between(a, mid, b, r) ==
  \E m \in 0..3, n \in 0..3 : r = a \o Newlines(m) \o mid \o Newlines(n) \o b

(* first place where heading h starts a line of s; 0 if there is none *)
HeadingLine(s, h) ==
  LET hits == {i \in 1..Len(s) : StartsAt(s, h, i) /\ (i = 1 \/ s[i - 1] = NL)}
  IN  IF hits = {} THEN 0 ELSE CHOOSE i \in hits : \A k \in hits : i <= k

(* first "## " or "### " heading line of s after position i that is not the *)
(* dated "### 📰" line of a digest; 0 if there is none                       *)
NextSectionHeading(s, i) ==
  LET hits == {k \in (i + 1)..Len(s) :
                 /\ s[k - 1] = NL
                 /\ StartsAt(s, <<"#", "#", SP>>, k) \/ StartsAt(s, <<"#", "#", "#", SP>>, k)
                 /\ ~StartsAt(s, <<"#", "#", "#", SP, "P">>, k)}
  IN  IF hits = {} THEN 0 ELSE CHOOSE k \in hits : \A m \in hits : k <= m

LastSummary == format_daily_summary(lastArgs.content, lastArgs.title, lastArgs.date)

(* C1: two upserts in a row with identical summary, title and date leave,   *)
(* after the second, the README text the first one left.                    *)
C1_Idempotent ==
  (calls >= 2 /\ prevResult = "ok" /\ result = "ok" /\ lastArgs = prevArgs)
    => readme = prev

(* C2: starting from a README with at most one digest heading, the README   *)
(* holds at most one digest heading after any sequence of upserts.          *)
C2_AtMostOneDigestSection ==
  readme # NoFile => Count(readme, HEADING) <= 1

(* C3: an upsert with another date and content onto a README whose digest   *)
(* section an earlier upsert wrote leaves no word of the old digest body    *)
(* and no dated heading with the old date.                                  *)
C3_OldSectionReplaced ==
  ( /\ calls >= 2 /\ prevResult = "ok" /\ result = "ok"
    /\ lastArgs.date # prevArgs.date
    /\ lastArgs.content # prevArgs.content )
    => /\ \A w \in Words(prevArgs.content) \ Words(lastArgs.content) : ~Contains(readme, <<w>>)
       /\ ~Contains(readme, DatedHeading(prevArgs.title, prevArgs.date))

(* C4: an upsert onto a README that has a digest section keeps the text     *)
(* before the digest heading and the text from the next section heading on: *)
(* the README is that text before, the digest section, that text after.     *)
C4_OutsideSectionVerbatim ==
  (calls >= 1 /\ result = "ok" /\ prev # NoFile /\ Contains(prev, HEADING))
    => LET i == Find(prev, HEADING)
           j == NextSectionHeading(prev, i)
           before == Slice(prev, 1, i - 1)
           after == IF j = 0 THEN <<>> ELSE From(prev, j)
       IN  /\ IsPrefix(before \o HEADING, readme)
           /\ IsSuffix(after, readme)
           /\ Len(readme) >= Len(before) + Len(HEADING) + Len(after)

(* C5: an upsert onto a README without digest section puts the section      *)
(* right before the "## Features" heading line, keeping the text before and *)
(* from that line; without such a line it appends the section to the text.  *)
C5_InsertBeforeFeatures ==
  (calls >= 1 /\ result = "ok" /\ prev # NoFile /\ ~Contains(prev, HEADING))
    => LET k == HeadingLine(prev, FEATURES)
           section == HEADING \o <<NL, NL>> \o LastSummary
       IN  IF k # 0
           THEN Between(Slice(prev, 1, k - 1), section, From(prev, k), readme)
           ELSE Between(prev, section, <<>>, readme)

(* C6: when the upsert returns its error result because formatting or the   *)
(* in-memory replacement failed, README.md is what it was before the call,  *)
(* and is still absent if it was absent.                                    *)
C6_NoWriteOnFailure ==
  (result = "error" /\ errStage \in {"format", "replace"}) => readme = prev

C6_Witness ==
  /\ calls >= 1 /\ result = "error" /\ errStage = "replace"
  /\ prev # NoFile /\ readme = prev

----------------------------------------------------------------------------
(* Properties of the emailer *)

(* the places in sends of the calls made for recipient i *)
AttemptsOf(i) == {k \in 1..Len(sends) : sends[k].to = i}

Delivered(o) == o.kind = "response" /\ o.status >= 200 /\ o.status <= 202

Regional401(o) ==
  o.kind = "HTTPError" /\ o.status = 401 /\ o.body \in {"regional", "Regional"}

(* C7: a recipient is sent a second time only when its first send failed    *)
(* with HTTP 401 and a body holding "regional attribute", and then exactly  *)
(* once; nobody is sent more than twice; the final success count is the     *)
(* number of recipients whose first send or retry succeeded.                *)
C7_RetryOnceOnRegional401 ==
  /\ \A i \in 1..Len(emailer_list) :
       /\ Cardinality(AttemptsOf(i)) <= 2
       /\ Cardinality({k \in AttemptsOf(i) : ~sends[k].retry}) <= 1
       /\ \A k \in AttemptsOf(i) :
            sends[k].retry =>
              /\ k > 1
              /\ sends[k - 1].to = i
              /\ ~sends[k - 1].retry
              /\ Regional401(sends[k - 1].outcome)
       /\ \A k \in AttemptsOf(i) :
            (~sends[k].retry /\ Regional401(sends[k].outcome))
              => Cardinality(AttemptsOf(i)) = 2
  /\ (epc = "done" /\ emailResult \in {"sent", "failed_all"})
       => /\ success_count =
               Cardinality({i \in 1..Len(emailer_list) :
                              \E k \in AttemptsOf(i) : Delivered(sends[k].outcome)})
          /\ emailResult = "sent" <=> success_count > 0

(* three recipients, the second one's send fails with the regional 401 and  *)
(* its retry succeeds: 3 of 3                                               *)
C7_Witness ==
  /\ epc = "done" /\ Len(emailer_list) = 3 /\ Len(sends) = 4
  /\ sends[2].to = 2 /\ Regional401(sends[2].outcome)
  /\ sends[3].to = 2 /\ sends[3].retry /\ Delivered(sends[3].outcome)
  /\ success_count = 3 /\ emailResult = "sent"

(* the regional-mismatch 401 errors in the first k entries of the send log: *)
(* all of them, and those a first send met (the retry's own error is caught *)
(* by "except Exception as re")                                             *)
RegionalErrorsMet(k) ==
  Cardinality({j \in 1..k : Regional401(sends[j].outcome)})

RegionalSwitches(k) ==
  Cardinality({j \in 1..k : ~sends[j].retry /\ Regional401(sends[j].outcome)})

Flipped(eu, n) == IF n % 2 = 0 THEN eu ELSE ~eu

(* the region flag a send was made with and the flag left after it, against *)
(* a count of flips                                                        *)
FlagFollows(flips(_)) ==
  /\ eu_residency = Flipped(SENDGRID_EU_RESIDENCY, flips(Len(sends)))
  /\ \A k \in 1..Len(sends) :
       sends[k].eu = Flipped(SENDGRID_EU_RESIDENCY, flips(k - 1))

AllHaveEmail == \A i \in 1..Len(emailer_list) : emailer_list[i] = "ok"

(* C8: once sending has started, every recipient of the list gets at least  *)
(* one send, in list order, whatever the sends to earlier recipients did:   *)
(* the loop ends before the end of the list only at an entry that has no    *)
(* "email", never because of what a send did.                               *)
C8_EveryRecipientAttempted ==
  (epc \in {"sending", "done"} /\ Len(emailer_list) > 0)
    => /\ \A i \in 1..idx : AttemptsOf(i) # {}
       /\ \A k \in 1..(Len(sends) - 1) : sends[k].to <= sends[k + 1].to
       /\ \A k \in 1..Len(sends) : sends[k].to <= idx
       /\ epc = "done" =>
            \/ idx = Len(emailer_list) /\ emailResult \in {"sent", "failed_all"}
            \/ idx < Len(emailer_list) /\ emailer_list[idx + 1] = "noemail"

(* all sends before the last recipient's failed, each in another way *)
C8_Witness ==
  /\ epc = "done" /\ Len(emailer_list) = 3 /\ AllHaveEmail
  /\ sends[1].outcome.kind = "Exception"
  /\ \E k \in AttemptsOf(2) : sends[k].retry /\ ~Delivered(sends[k].outcome)
  /\ AttemptsOf(3) # {}

(* C9: a missing client, list file, list or template ends the call with the *)
(* error string of that check, returned as the result, and without a send.  *)
C9_MissingConfigReported ==
  LET noList == cfg.list.state = "notlist"
                  \/ (cfg.list.state = "list" /\ cfg.list.entries = <<>>)
      missing == \/ ~sg
                 \/ cfg.list.state = "missing"
                 \/ noList
                 \/ cfg.template = "missing"
  IN  (epc = "done" /\ missing)
        => /\ sends = <<>>
           /\ success_count = 0
           /\ emailResult \in {"not_initialized", "list_not_found", "list_required",
                               "template_not_found", "tool_error"}
           /\ ~sg => emailResult = "not_initialized"
           /\ (sg /\ cfg.list.state = "missing") => emailResult = "list_not_found"
           /\ (sg /\ noList) => emailResult = "list_required"
           /\ (sg /\ cfg.list.state = "list" /\ ~noList /\ cfg.template = "missing")
                => emailResult = "template_not_found"

C9_Witness ==
  /\ epc = "done" /\ sg
  /\ cfg.list.state = "list" /\ Len(cfg.list.entries) = 3
  /\ cfg.template = "missing"
  /\ emailResult = "template_not_found" /\ sends = <<>>

(* C21 as stated: at every point of a run the region flag is its initial    *)
(* value flipped once per regional-mismatch 401 error met so far, and every *)
(* send is made with the flag the errors before it left.                    *)
C21_FlipPerRegionalError == FlagFollows(RegionalErrorsMet)

(* C21: at every point of a run the region flag is its initial value        *)
(* flipped once per first send that met a regional-mismatch 401 error so    *)
(* far; a retry is made with the flipped flag and, whatever it does (the    *)
(* same error included), leaves the flag alone; every later send is made    *)
(* with the flag the last switch left, so a second switch restores the      *)
(* initial region.                                                          *)
C21_RegionFlagParity == FlagFollows(RegionalSwitches)

(* recipient 1 meets the error and its retry fails, recipient 2 is sent in  *)
(* the other region and meets the error too: recipient 3 is sent in the     *)
(* initial region                                                           *)
C21_Witness ==
  /\ epc = "done" /\ Len(emailer_list) = 3 /\ Len(sends) = 5
  /\ sends[1].to = 1 /\ Regional401(sends[1].outcome)
  /\ sends[2].retry /\ ~Delivered(sends[2].outcome)
  /\ sends[3].to = 2 /\ sends[3].eu # SENDGRID_EU_RESIDENCY
  /\ Regional401(sends[3].outcome)
  /\ sends[4].retry /\ Delivered(sends[4].outcome)
  /\ sends[5].to = 3 /\ sends[5].eu = SENDGRID_EU_RESIDENCY
  /\ eu_residency = SENDGRID_EU_RESIDENCY

----------------------------------------------------------------------------
(* Properties of the feed locator *)

(* C10: the result starts with the 7 suffix candidates in their fixed order; *)
(* it has the 4 extra candidates after them, 11 in all, when the probe      *)
(* returned status 200 and a text holding "rss" or "feed" in any case, and  *)
(* just the 7 otherwise.                                                    *)
C10_CandidateList ==
  locCalls >= 1 =>
    LET page == LowerPage(probe.text)
        hit == /\ probe.kind = "response"
               /\ probe.status = 200
               /\ \E i \in 1..Len(page) :
                    \/ StartsAt(page, <<"r", "s", "s">>, i)
                    \/ StartsAt(page, <<"f", "e", "e", "d">>, i)
    IN  /\ Len(rss_patterns) >= 7
        /\ SubSeq(rss_patterns, 1, 7) =
             << <<blog_url, "/rss">>, <<blog_url, "/feed">>, <<blog_url, "/rss.xml">>,
                <<blog_url, "/feed.xml">>, <<blog_url, "/atom.xml">>, <<blog_url, "/rss/">>,
                <<blog_url, "/feed/">> >>
        /\ IF hit
           THEN /\ Len(rss_patterns) = 11
                /\ SubSeq(rss_patterns, 8, 11) =
                     << <<blog_url, "/rss/feed">>, <<blog_url, "/feed/rss">>,
                        <<blog_url, "/blog/rss">>, <<blog_url, "/blog/feed">> >>
           ELSE Len(rss_patterns) = 7

C10_Witness ==
  /\ locCalls >= 1
  /\ probe.kind = "response" /\ probe.status = 200 /\ probe.text = <<"R", "S", "S">>
  /\ Len(rss_patterns) = 11

----------------------------------------------------------------------------
(* The Fetcher *)

(* the UTC day a date string states *)
UtcDayOf(s) ==
  LET h == HourOf(s[2]) - ZoneOf(s[3])
  IN  IF h < 0 THEN DayOf(s[1]) - 1 ELSE IF h >= 24 THEN DayOf(s[1]) + 1 ELSE DayOf(s[1])

(* the published string is a date whose UTC calendar date is today's *)
HasTodayDate(s) == IsDateString(s) /\ UtcDayOf(s) = Now.today

InSeq(x, s) == \E i \in 1..Len(s) : s[i] = x

(* the post the last call made of an entry *)
FetchedPost(e) == PostOf(e, FeedUrl, FeedBlog.name, FeedBlog.url, Now)

(* the last call got a feed and went through its entries *)
FeedParsed == fetch_done /\ fetch_resp.kind = "response" /\ fetch_resp.status = 200 /\ fetch_resp.parse = "ok"

RelevantEntries == {i \in 1..Len(fetch_resp.entries) : IsRelevant(fetch_resp.entries[i], fetch_args.topic)}

C12_TodayClassification ==
  FeedParsed =>
    \A i \in RelevantEntries :
       LET e == fetch_resp.entries[i]
       IN  /\ InSeq(FetchedPost(e), fetch_part.today_posts) <=> HasTodayDate(e.published)
           /\ ~IsDateString(e.published) =>
                /\ ~InSeq(FetchedPost(e), fetch_part.today_posts)
                /\ InSeq(FetchedPost(e), fetch_part.other_posts)

(* C13: the Fetcher returns the empty list and raises nothing when the      *)
(* request raises, when the status is not 200, when parsing the body        *)
(* raises, when the feed has no entries and when no entry is relevant.      *)
C13_FailsSoft ==
  fetch_done =>
    /\ ~fetch_raised
    /\ (\/ fetch_resp.kind # "response"
        \/ fetch_resp.status # 200
        \/ fetch_resp.parse = "raises"
        \/ fetch_resp.entries = <<>>
        \/ RelevantEntries = {}) => fetch_posts = <<>>

(* a 404 whose body holds an entry relevant to the topic, max_posts > 0 *)
C13_Witness ==
  /\ fetch_done
  /\ fetch_resp.kind = "response" /\ fetch_resp.status = 404
  /\ RelevantEntries # {}
  /\ fetch_args.max_posts > 0
  /\ fetch_posts = <<>>

(* the lower-cased tokens of the topic of the last call *)
TopicTokens == {SplitWs(LowerPage(fetch_args.topic))[i] : i \in 1..Len(SplitWs(LowerPage(fetch_args.topic)))}

(* the entry went through the filter: its post is in one of the two lists *)
Kept(e) == InSeq(FetchedPost(e), fetch_part.today_posts \o fetch_part.other_posts)

(* C18 as stated: an entry is kept exactly when a token of the topic occurs *)
(* in the lower-cased text made of its title, its summary and the value of  *)
(* its first content block; a topic without tokens keeps no entry and the   *)
(* Fetcher returns the empty list.                                          *)
C18_HaystackMatch ==
  FeedParsed =>
    /\ \A i \in 1..Len(fetch_resp.entries) :
          LET e == fetch_resp.entries[i]
              haystack == LowerPage(e.title \o e.summary \o ContentValue(e))
          IN  Kept(e) <=> \E t \in TopicTokens : Contains(haystack, t)
    /\ TopicTokens = {} => fetch_posts = <<>>

(* C18 as amended: an entry is kept exactly when a token of the topic       *)
(* occurs in its lower-cased title, in its lower-cased summary or in the    *)
(* lower-cased value of its first content block, each searched on its own;  *)
(* a topic without tokens keeps no entry and the Fetcher returns the empty  *)
(* list.                                                                    *)
C18_FieldMatch ==
  FeedParsed =>
    /\ \A i \in 1..Len(fetch_resp.entries) :
          LET e == fetch_resp.entries[i]
          IN  Kept(e) <=>
                \E t \in TopicTokens :
                   \E field \in {e.title, e.summary, IF e.content = <<>> THEN <<>> ELSE e.content[1]} :
                      Contains(LowerPage(field), t)
    /\ TopicTokens = {} => fetch_posts = <<>>

(* an entry kept for the value of its first content block alone, under a    *)
(* topic of two tokens                                                      *)
C18_Witness ==
  /\ FeedParsed
  /\ Cardinality(TopicTokens) = 2
  /\ \E i \in 1..Len(fetch_resp.entries) :
        LET e == fetch_resp.entries[i]
        IN  /\ Kept(e)
            /\ e.content # <<>>
            /\ \A t \in TopicTokens : ~Contains(LowerPage(e.title), t) /\ ~Contains(LowerPage(e.summary), t)

Occurrences(x, s) == Cardinality({i \in 1..Len(s) : s[i] = x})

(* the list the last call chose from *)
ChosenPartition ==
  IF fetch_part.today_posts # <<>> THEN fetch_part.today_posts ELSE fetch_part.other_posts

----------------------------------------------------------------------------
(* The aggregator *)

(* the positions in agg_log of the fetches made for the b-th blog *)
FetchesOf(b) == {k \in 1..Len(agg_log) : agg_log[k].blog = b}

(* every candidate the Locator can return for a blog, in its order *)
AllCandidates(b) == WithUrl(blog_sources[b].url, BasePatterns \o ExtraPatterns)

RECURSIVE LoggedPosts(_)
LoggedPosts(log) ==
  IF log = <<>> THEN <<>> ELSE LoggedPosts(Slice(log, 1, Len(log) - 1)) \o log[Len(log)].posts

(* C14: at every moment of a run, the fetches made for a blog are the first *)
(* candidates of the Locator's list in its order, one fetch each; a fetch   *)
(* that returned no posts is followed by the fetch of the next candidate    *)
(* until the list ends; no fetch for a blog follows one that returned       *)
(* posts; the posts gathered are those of the one successful fetch of each  *)
(* blog, in the order of the blogs.                                         *)
C14_FirstSuccess ==
  /\ \A k \in 1..Len(agg_log) :
        LET b == agg_log[k].blog
            n == Cardinality({j \in FetchesOf(b) : j <= k})
        IN  /\ n <= Len(AllCandidates(b))
            /\ agg_log[k].url = AllCandidates(b)[n]
            /\ \A j \in FetchesOf(b) : j < k => agg_log[j].posts = <<>>
            /\ \A j \in 1..k : agg_log[j].blog <= b
  /\ extracted_posts = LoggedPosts(agg_log)
  /\ agg_pc = "fetching" =>
        /\ Cardinality(FetchesOf(agg_blog)) = agg_cand - 1
        /\ agg_cand <= Len(rss_urls)
        /\ \A j \in FetchesOf(agg_blog) :
              /\ agg_log[j].posts = <<>>
              /\ agg_log[j].url = rss_urls[Cardinality({i \in FetchesOf(agg_blog) : i <= j})]
        /\ \A b \in 1..(agg_blog - 1) :
              \/ \E j \in FetchesOf(b) : agg_log[j].posts # <<>>
              \/ Cardinality(FetchesOf(b)) \in {Len(BasePatterns), Len(AllCandidates(b))}
  /\ agg_pc = "done" =>
        \A b \in 1..Len(blog_sources) :
              \/ \E j \in FetchesOf(b) : agg_log[j].posts # <<>>
              \/ Cardinality(FetchesOf(b)) \in {Len(BasePatterns), Len(AllCandidates(b))}

(* a finished run over two blogs: the first candidate of the first blog     *)
(* gave nothing, its second one gave posts and was its last fetch, and the  *)
(* second blog was tried after it                                           *)
C14_Witness ==
  /\ agg_pc = "done"
  /\ Len(blog_sources) = 2
  /\ Cardinality(FetchesOf(1)) = 2
  /\ agg_log[1].posts = <<>>
  /\ agg_log[2].posts # <<>>
  /\ FetchesOf(2) # {}

(* C15: a run that loaded its sources returns "no posts found" exactly when *)
(* every fetch of every candidate of every blog returned no posts; when a   *)
(* fetch returned a post, the run returns an extraction result that holds   *)
(* every post such a fetch returned.                                        *)
C15_NoPostsFound ==
  (agg_pc = "done" /\ agg_result.kind # "sources_not_found") =>
    /\ agg_result.kind \in {"no_posts", "result"}
    /\ agg_result.kind = "no_posts" <=> \A k \in 1..Len(agg_log) : agg_log[k].posts = <<>>
    /\ (\E k \in 1..Len(agg_log) : agg_log[k].posts # <<>>) =>
          /\ agg_result.kind = "result"
          /\ \A k \in 1..Len(agg_log) : \A i \in 1..Len(agg_log[k].posts) :
                InSeq(agg_log[k].posts[i], agg_result.posts)

(* two blogs, every candidate of both fetched in vain *)
C15_Witness ==
  /\ agg_pc = "done"
  /\ agg_result.kind = "no_posts"
  /\ Len(blog_sources) = 2
  /\ Len(agg_log) >= 2 * Len(BasePatterns)

----------------------------------------------------------------------------
(* The Markdown formatter *)

HeadingChunks == {c \in Chunks : StartsWith(c, <<"#", "#">>)}

ParagraphChunks == {<<"x">>}

(* C17 as stated: for a content made of a "##" heading chunk, a blank line  *)
(* and a paragraph chunk, the output holds the heading line as it is and    *)
(* holds the paragraph line followed by a blank line.                       *)
C17_ParagraphThenBlankLine ==
  md_done =>
    \A h \in HeadingChunks, p \in ParagraphChunks :
       md_content = h \o <<NL, NL>> \o p =>
         /\ Contains(md_out, h \o <<NL>>)
         /\ Contains(md_out, p \o <<NL, NL>>)

(* C17 as amended: for such a content the output is the title and date      *)
(* lines, the heading line as it is, a blank line and the paragraph line,   *)
(* and it ends there; when a further paragraph chunk follows, the first     *)
(* paragraph line is followed by a blank line and the output ends with the  *)
(* second.                                                                  *)
C17_TrimmedOutput ==
  md_done =>
    \A h \in HeadingChunks, p \in ParagraphChunks :
       /\ md_content = h \o <<NL, NL>> \o p =>
            md_out = SummaryHead(md_title, md_date) \o h \o <<NL, NL>> \o p
       /\ md_content = p \o <<NL, NL>> \o p =>
            md_out = SummaryHead(md_title, md_date) \o p \o <<NL, NL>> \o p

(* the example of the claim, "## y\n\nx", formatted without title and date *)
C17_Witness ==
  /\ md_done
  /\ md_title = <<>> /\ md_date = <<>>
  /\ md_content = <<"#", "#", SP, "y", NL, NL, "x">>
  /\ md_out = <<"#", "#", SP, "y", NL, NL, "x">>

----------------------------------------------------------------------------
(* The README state machine *)

(* the states of README.md *)
HasDigestSection(file) == file # NoFile /\ Contains(file, HEADING)

(* C20: a successful upsert, whether README.md was absent, had no digest    *)
(* section or had one, leaves a README.md with a digest section in which    *)
(* the new dated digest stands under the digest heading; when the file was  *)
(* absent the "## Features" heading of the default template follows the     *)
(* digest; and no upsert whose write the file system completes takes a      *)
(* README.md with a digest section to one without.                          *)
C20_ReadmeStateMachine ==
  /\ (calls > 0 /\ result = "ok") =>
        /\ HasDigestSection(readme)
        /\ Contains(readme, HEADING \o <<NL, NL>> \o LastSummary)
        /\ prev = NoFile =>
              /\ IsPrefix(<<"#", SP, "TPL1">>, readme)
              /\ Contains(readme, HEADING \o <<NL, NL>> \o LastSummary \o <<NL, NL>> \o FEATURES)
  /\ (calls > 0 /\ HasDigestSection(prev) /\ errStage # "write") => HasDigestSection(readme)

(* lines of s after its first one that begin with "## " or "### " *)
SectionLines(s) ==
  {k \in 2..Len(s) :
     /\ s[k - 1] = NL
     /\ StartsAt(s, <<"#", "#", SP>>, k) \/ StartsAt(s, <<"#", "#", "#", SP>>, k)}

(* C22: the digest the upsert formatted has, after its dated "###" heading  *)
(* line, no line that begins with "## " or "### ", so the lazy group of the *)
(* replacement pattern, started behind the digest heading of the section    *)
(* the upsert writes, runs to the end of the digest.                        *)
C22_DigestSectionBoundary ==
  (calls >= 1 /\ lastArgs.content # NoContent)
    => LET digest == LastSummary
           section == GROUP1 \o digest \o <<NL, NL>>
       IN  /\ IsPrefix(DatedHeading(lastArgs.title, lastArgs.date), digest)
           /\ SectionLines(digest) = {}
           /\ LazyEnd(section, Len(GROUP1) + 1) > Len(GROUP1) + Len(digest)

====
